---- MODULE Spec2Model ----
(***************************************************************************)
(* Model of eolie's WebView (src/src/view_web.py) and View                 *)
(* (src/src/view.py): the navigation policy, the load callbacks, the TLS   *)
(* override flow, the network recheck timer and the credential lookup.     *)
(*                                                                         *)
(* Strings are sequences of tokens, so that urlparse, str.replace and      *)
(* string concatenation are computed on the text and not assumed.          *)
(***************************************************************************)
EXTENDS Integers, Sequences, FiniteSets, TLC

(* ------------------------------------------------------------------ *)
(* Bounds of the model                                                 *)
(* ------------------------------------------------------------------ *)

\* Largest number of GLib timeout sources kept pending at once.
MaxTimers == 2

\* Largest number of GetForms calls in flight at once.
MaxLookups == 1

\* Largest number of views created on one web context.
MaxViews == 3

(* ------------------------------------------------------------------ *)
(* Strings                                                             *)
(* ------------------------------------------------------------------ *)

EmptyStr == << >>

\* Python's None where a string is expected.
NoneStr == <<"<None>">>

\* Python's None where a certificate is expected.
NoneCert == "None"

PathToks == {"/p", "/x"}

\* The full text of the URIs the model draws from.
AboutBlank == <<"about", ":", "blank">>

HttpsAQ == <<"https", "://", "a", ".", "example", "/p", "?", "q=1">>

HttpsA == <<"https", "://", "a", ".", "example", "/p">>

HttpsB == <<"https", "://", "b", ".", "example", "/x">>

HttpB == <<"http", "://", "b", ".", "example", "/x">>

FileP == <<"file", "://", "/p">>

SchemelessB == <<"b", ".", "example", "/x">>

FtpF == <<"ftp", "://", "f", ".", "example", "/p">>

JavascriptX == <<"javascript", ":", "x()">>

AcceptAQ == <<"accept", "://", "a", ".", "example", "/p", "?", "q=1">>

AcceptB == <<"accept", "://", "b", ".", "example", "/x">>

HostA == <<"a", ".", "example">>

HostB == <<"b", ".", "example">>

\* Position of the first token of s equal to t, 0 when there is none.
Find(s, t) ==
    IF \E i \in 1..Len(s) : s[i] = t
    THEN CHOOSE i \in 1..Len(s) : s[i] = t /\ \A j \in 1..(i - 1) : s[j] # t
    ELSE 0

\* s[from..] , the empty string when from is past the end.
Tail_(s, from) == IF from > Len(s) THEN EmptyStr ELSE SubSeq(s, from, Len(s))

\* Position of the first token of s that is in set T, 0 when there is none.
FindIn(s, T) ==
    IF \E i \in 1..Len(s) : s[i] \in T
    THEN CHOOSE i \in 1..Len(s) : s[i] \in T /\ \A j \in 1..(i - 1) : s[j] \notin T
    ELSE 0

\* The parse urllib.parse.urlparse makes: scheme, netloc, path and query of
\* a string. The netloc is what follows "://" up to the first "/" or "?".
urlsplit(s) ==
    LET hasScheme == Len(s) >= 2 /\ s[2] \in {":", "://"}
        scheme == IF hasScheme THEN <<s[1]>> ELSE EmptyStr
        rest == IF hasScheme THEN Tail_(s, 3) ELSE s
        hasNetloc == hasScheme /\ s[2] = "://"
        n == FindIn(rest, PathToks \cup {"?"})
        netloc == IF ~hasNetloc THEN EmptyStr
                  ELSE IF n = 0 THEN rest ELSE SubSeq(rest, 1, n - 1)
        after == IF ~hasNetloc THEN rest
                 ELSE IF n = 0 THEN EmptyStr ELSE Tail_(rest, n)
        q == Find(after, "?")
        path == IF q = 0 THEN after ELSE SubSeq(after, 1, q - 1)
        query == IF q = 0 THEN EmptyStr ELSE Tail_(after, q + 1)
    IN [scheme |-> scheme, netloc |-> netloc, path |-> path, query |-> query]

\* Every text the model parses.
Texts == {AboutBlank, HttpsAQ, HttpsA, HttpsB, HttpB, FileP, SchemelessB,
          FtpF, JavascriptX, AcceptAQ, AcceptB, NoneStr, EmptyStr}

\* The parses of the texts, computed once.
Parsed == [s \in Texts |-> urlsplit(s)]

\* urllib.parse.urlparse
urlparse(s) == Parsed[s]

\* str.replace(old, new) for a two-token old and new: every occurrence.
Replace2(s, o1, o2, n1, n2) ==
    [i \in 1..Len(s) |->
        IF s[i] = o1 /\ i < Len(s) /\ s[i + 1] = o2 THEN n1
        ELSE IF s[i] = o2 /\ i > 1 /\ s[i - 1] = o1 THEN n2
        ELSE s[i]]

(* ------------------------------------------------------------------ *)
(* Enumerations of the engine                                          *)
(* ------------------------------------------------------------------ *)

\* WebKit2.PolicyDecisionType
DecisionTypes == {"NAVIGATION_ACTION", "NEW_WINDOW_ACTION", "RESPONSE"}

\* WebKit2.NavigationType
NavigationTypes == {"LINK_CLICKED", "FORM_SUBMITTED", "BACK_FORWARD",
                    "RELOAD", "FORM_RESUBMITTED", "OTHER"}

\* Mouse buttons: 0 none (script), 1 left, 2 middle.
MouseButtons == {0, 1, 2}

Certs == {"certA", "certB"}

(* ------------------------------------------------------------------ *)
(* State                                                               *)
(* ------------------------------------------------------------------ *)

VARIABLES
    loaded_uri,         \* WebView.__loaded_uri
    bad_tls,            \* WebView.__bad_tls
    insecure,           \* WebView.__insecure_content_detected ("unset" until assigned)
    popup_exception,    \* WebView.__popup_exception
    title,              \* WebView.__title
    readable_content,   \* WebView.__readable_content
    js_timeout,         \* WebView.__js_timeout
    private,            \* the view's is-ephemeral property
    auto_load_images,   \* the auto-load-images property of the view's settings
    uri,                \* the engine's get_uri()
    page_title,         \* the engine's get_title()
    load_state,         \* where the engine's current load stands
    page,               \* the error page given to load_html, if any
    network,            \* Gio.NetworkMonitor.get_network_available()
    settings,           \* El().settings: popupblock, adblock, imgblock
    exceptions,         \* El().adblock exceptions
    timers,             \* pending GLib.timeout_add(1000, __check_for_network, uri)
    lookups,            \* GetForms calls in flight
    trusted,            \* allow_tls_certificate_for_host registrations
    connected,          \* how many views' handlers are connected to the
                        \* download-started of this view's web context
    reading_view,       \* View.__reading_view
    in_read_mode,       \* View.__in_read_mode ("unset" until assigned)
    overlays,           \* the widgets View.add_overlay has put over the page
    last,               \* what the last handler was given and what it did
    hist                \* history kept for the properties: whether a TLS
                        \* failure is still pending (tls_live), the timer
                        \* that fired last, the load state before the last
                        \* load event (from), the certificate of the most
                        \* recent TLS failure (cert) and whether an override
                        \* was accepted since that failure (accepted),
                        \* whether a title that is neither empty nor
                        \* readable content was notified since the last
                        \* STARTED (titled) and the title FINISHED has
                        \* announced since then (synth) and the host of
                        \* the URI of the most recent TLS failure (host)

vars == <<loaded_uri, bad_tls, insecure, popup_exception, title,
          readable_content, js_timeout, private, auto_load_images, uri, page_title, load_state, page,
          network, settings, exceptions, timers, lookups, trusted,
          reading_view, in_read_mode, overlays, connected, last, hist>>

viewVars == <<loaded_uri, bad_tls, insecure, popup_exception, title,
              readable_content, js_timeout, private, auto_load_images>>

engineVars == <<uri, page_title, load_state, page>>

envVars == <<network, settings, exceptions>>

asyncVars == <<timers, lookups, trusted>>

\* The fields of the View that holds the WebView.
readVars == <<reading_view, in_read_mode, overlays>>

\* A signal emitted by the view: name, string arguments, boolean argument.
Signal(name, a1, a2, a3, flag) ==
    [sig |-> name, s1 |-> a1, s2 |-> a2, s3 |-> a3, b |-> flag]

\* The request of a decide-policy event.
NoRequest ==
    [decision_type |-> "", can_show |-> FALSE, uri |-> NoneStr,
     mouse_button |-> 0, navigation_type |-> ""]

\* The record of one handler run: its argument, the signals it emitted in
\* order, the engine and library calls it made, the method called on the
\* policy decision, the URI it handed to WebKit2.WebView.load_uri (NoneStr
\* when it handed none) and its return value; for a load failure, the error
\* code it was given; for FINISHED, the block scripts it ran, in order; for
\* a TLS failure, the error flags it was given; for a download, how many
\* times download_manager.add was called.
Did(op, arg, req, emitted, calls, decision, loaded, ret) ==
    [op |-> op, arg |-> arg, req |-> req, emitted |-> emitted,
     calls |-> calls, decision |-> decision, loaded |-> loaded, ret |-> ret,
     script |-> NoneStr, code |-> 0, scripts |-> << >>, errors |-> {},
     adds |-> 0]

\* The page given to load_html: its kind ("none", "error", "tls"), the
\* argument of the load_uri(...) its button runs, its message, the URI that
\* failed and the certificate that came with the failure.
NoPage ==
    [kind |-> "none", action |-> NoneStr, reason |-> "", failed |-> NoneStr,
     cert |-> NoneCert]

\* A timer that has not fired yet.
NoTimer == [uri |-> NoneStr, superseded |-> FALSE]

\* The html a reading view is given: the font size in tenths of a point,
\* the title and the content.
NoHtml == [font_size |-> 0, title |-> NoneStr, content |-> NoneStr]

\* View.__reading_view is None.
NoReadingView == [exists |-> FALSE, html |-> NoHtml]

\* WebView.__init and View.__init: the fields they assign;
\* WebView.__insecure_content_detected and View.__in_read_mode are not among
\* them. The view is private when WebView.new_ephemeral made it.
Created(ephemeral) ==
    /\ loaded_uri = EmptyStr
    /\ bad_tls = NoneCert
    /\ insecure = "unset"
    /\ popup_exception = NoneStr
    /\ title = EmptyStr
    /\ readable_content = EmptyStr
    /\ js_timeout = "None"
    /\ private = ephemeral
    /\ auto_load_images = TRUE
    /\ uri = NoneStr
    /\ page_title = EmptyStr
    /\ load_state = "Idle"
    /\ page = NoPage
    /\ network = TRUE
    /\ settings = [popupblock |-> TRUE, adblock |-> TRUE, imgblock |-> FALSE]
    /\ exceptions = {}
    /\ timers = << >>
    /\ lookups = << >>
    /\ trusted = {}
    /\ connected = 1
    /\ reading_view = NoReadingView
    /\ in_read_mode = "unset"
    /\ overlays = <<"uri_label">>
    /\ last = Did("init", NoneStr, NoRequest, << >>, {}, "none", NoneStr, "None")
    /\ hist = [tls_live |-> FALSE, fired |-> NoTimer, from |-> "Idle",
               cert |-> NoneCert, accepted |-> FALSE,
               titled |-> FALSE, synth |-> NoneStr, host |-> NoneStr]

\* A view made by WebView.new().
Init == Created(FALSE)

\* A view made by WebView.new() or by WebView.new_ephemeral().
InitAny == \E ephemeral \in BOOLEAN : Created(ephemeral)

(* ------------------------------------------------------------------ *)
(* Collaborators                                                       *)
(* ------------------------------------------------------------------ *)

\* El().adblock.is_an_exception(x)
is_an_exception(x) == x \in exceptions

\* is_an_exception(parsed.netloc) or is_an_exception(parsed.netloc + parsed.path)
exception_for(u) ==
    LET parsed == urlparse(u)
    IN is_an_exception(parsed.netloc)
       \/ is_an_exception(parsed.netloc \o parsed.path)

(* ------------------------------------------------------------------ *)
(* WebView.load_uri                                                    *)
(* ------------------------------------------------------------------ *)

LoadableSchemes == {<<"http">>, <<"https">>, <<"file">>, <<"populars">>,
                    <<"accept">>}

\* Which branch of load_uri a string takes.
load_uri_branch(u) ==
    LET parsed == urlparse(u)
    IN IF u = AboutBlank THEN "blank"
       ELSE IF parsed.scheme = <<"ftp">> THEN "ftp"
       ELSE IF parsed.scheme = <<"javascript">> THEN "javascript"
       ELSE IF parsed.scheme \notin LoadableSchemes THEN "prefix"
       ELSE IF parsed.scheme # <<"accept">> THEN "reset"
       ELSE "accept"

\* The URI load_uri hands to WebKit2.WebView.load_uri; NoneStr when it
\* returns before that call.
load_uri_target(u) ==
    CASE load_uri_branch(u) \in {"blank", "ftp", "javascript"} -> NoneStr
      [] load_uri_branch(u) = "prefix" -> <<"http", "://">> \o u
      [] OTHER -> u

\* The calls load_uri makes outside the view.
load_uri_calls(u) ==
    CASE load_uri_branch(u) = "blank" -> {"load_plain_text"}
      [] load_uri_branch(u) = "ftp" -> {"spawn_sync"}
      [] load_uri_branch(u) = "javascript" -> {"run_javascript"}
      [] OTHER -> {"webkit_load_uri"}

load_uri_keeps_tls(u) == FALSE

\* Whether load_uri reaches "Reset bad tls certificate".
load_uri_resets(u) == load_uri_branch(u) = "reset"

\* The fields load_uri assigns.
load_uri(u) ==
    /\ loaded_uri' = CASE load_uri_branch(u) = "blank" -> u
                       [] load_uri_branch(u) \in {"ftp", "javascript"} -> loaded_uri
                       [] OTHER -> load_uri_target(u)
    /\ bad_tls' = IF load_uri_resets(u) THEN NoneCert ELSE bad_tls
    /\ insecure' = IF load_uri_resets(u) THEN "False" ELSE insecure

\* Whether load_uri(u) starts a navigation of the view to a target that is
\* not of the accept scheme.
StartsNavigation(u) ==
    load_uri_branch(u) \in {"blank", "prefix", "reset"}

\* The strings a caller passes to load_uri.
LoadUriArgs == {AboutBlank, HttpsAQ, HttpsB, HttpB, SchemelessB, FtpF,
                JavascriptX, AcceptAQ}

LoadUri(u) ==
    /\ load_uri(u)
    /\ last' = Did("load_uri", u, NoRequest, << >>, load_uri_calls(u), "none",
                   load_uri_target(u), "None")
    /\ hist' = [hist EXCEPT !.tls_live = IF StartsNavigation(u) THEN FALSE ELSE @]
    /\ UNCHANGED <<popup_exception, title, readable_content, js_timeout,
                   private, readVars, connected, auto_load_images>>
    /\ UNCHANGED <<engineVars, envVars, asyncVars>>

\* WebView.set_popup_exception
SetPopupException(u) ==
    /\ popup_exception' = u
    /\ last' = Did("set_popup_exception", u, NoRequest, << >>, {}, "none",
                   NoneStr, "None")
    /\ UNCHANGED <<loaded_uri, bad_tls, insecure, title, readable_content,
                   js_timeout, private, readVars, connected, auto_load_images, hist>>
    /\ UNCHANGED <<engineVars, envVars, asyncVars>>

(* ------------------------------------------------------------------ *)
(* WebView.__on_decide_policy                                          *)
(* ------------------------------------------------------------------ *)

BlockedNavigationTypes == {"OTHER", "RELOAD", "BACK_FORWARD"}

popup_allowed_all(u, nt, popup_block) ==
    exception_for(u) \/ (~popup_block /\ nt \notin BlockedNavigationTypes)

\* The branch of the popup test that spawns a new page.
popup_allowed(u, nt, popup_block) ==
    exception_for(u) \/ ~popup_block \/ nt \notin BlockedNavigationTypes

\* What a run of the handler comes to: the signals emitted, the method
\* called on the decision ("none" when it calls none) and the return value.
Outcome(e, d, r) == [emitted |-> e, decision |-> d, ret |-> r]

\* self.emit("new-page", uri, flag)
NewPage(u, flag) == <<Signal("new-page", u, EmptyStr, EmptyStr, flag)>>

other_button_blocked(req, popup_block) ==
    IF req.decision_type = "NEW_WINDOW_ACTION"
       /\ ~popup_allowed(req.uri, req.navigation_type, popup_block)
    THEN Outcome(<< >>, "none", "None")
    ELSE Outcome(NewPage(req.uri, FALSE), "ignore", "None")

\* The last branch, a mouse button that is neither 0 nor 1: the handler
\* ends without a return statement.
other_button(req, popup_block) ==
    Outcome(NewPage(req.uri, FALSE), "ignore", "None")

assigns_before_branch(req) == req.decision_type # "RESPONSE"

\* Whether the handler assigns the request's URI to __loaded_uri.
assigns_loaded_uri(req) ==
    req.decision_type # "RESPONSE" /\ req.mouse_button = 1

response_by_button(req) ==
    IF req.can_show /\ req.mouse_button # 2
    THEN Outcome(<< >>, "use", "False")
    ELSE Outcome(<< >>, "download", "False")

\* "Always accept response": use when the engine can show the MIME type,
\* download otherwise.
response_outcome(req) ==
    IF req.can_show
    THEN Outcome(<< >>, "use", "False")
    ELSE Outcome(<< >>, "download", "False")

left_button_blocked(req, popup_block) ==
    IF req.decision_type = "NEW_WINDOW_ACTION"
    THEN IF popup_allowed(req.uri, req.navigation_type, popup_block)
         THEN Outcome(NewPage(req.uri, TRUE), "ignore", "True")
         ELSE Outcome(<< >>, "none", "None")
    ELSE Outcome(<< >>, "use", "False")

\* The branch of mouse button 1.
left_button(req, popup_block) ==
    IF req.decision_type = "NEW_WINDOW_ACTION"
    THEN Outcome(NewPage(req.uri, TRUE), "ignore", "True")
    ELSE Outcome(<< >>, "use", "False")

\* What the handler does with a request. With mouse button 0 and a new
\* window that is not allowed, no branch is taken: no method of the
\* decision is called and the handler returns None.
policy_outcome(req, popup_block) ==
    LET u == req.uri
    IN IF req.decision_type = "RESPONSE"
       THEN response_outcome(req)
       ELSE IF req.mouse_button = 0
       THEN IF req.decision_type = "NEW_WINDOW_ACTION"
            THEN IF popup_allowed(u, req.navigation_type, popup_block)
                 THEN Outcome(NewPage(u, TRUE), "ignore", "True")
                 ELSE Outcome(<< >>, "none", "None")
            ELSE Outcome(<< >>, "use", "False")
       ELSE IF req.mouse_button = 1
       THEN left_button(req, popup_block)
       ELSE other_button(req, popup_block)

\* The URIs of the requests the engine asks a decision for.
PolicyUris == {HttpsAQ, HttpB}

PolicyRequests ==
    [decision_type : DecisionTypes, can_show : BOOLEAN, uri : PolicyUris,
     mouse_button : MouseButtons, navigation_type : NavigationTypes]

OnDecidePolicy(req) ==
    LET o == policy_outcome(req, settings.popupblock)
    IN /\ loaded_uri' = IF assigns_loaded_uri(req) THEN req.uri ELSE loaded_uri
       /\ last' = Did("decide_policy", req.uri, req, o.emitted, {}, o.decision,
                      NoneStr, o.ret)
       /\ UNCHANGED <<bad_tls, insecure, popup_exception, title,
                      readable_content, js_timeout, private, readVars, connected,
                      auto_load_images, hist>>
       /\ UNCHANGED <<engineVars, envVars, asyncVars>>

(* ------------------------------------------------------------------ *)
(* TLS failures and the accept scheme                                  *)
(* ------------------------------------------------------------------ *)

\* Gio.TlsCertificateFlags
TlsFlags == {"UNKNOWN_CA", "BAD_IDENTITY", "NOT_ACTIVATED", "EXPIRED",
             "REVOKED", "INSECURE", "GENERIC_ERROR"}

tls_reason_by_flag(errors) ==
    IF "BAD_IDENTITY" \in errors THEN "does not match this website"
    ELSE IF "EXPIRED" \in errors THEN "has expired"
    ELSE IF "UNKNOWN_CA" \in errors THEN "authority is not known"
    ELSE IF "GENERIC_ERROR" \in errors THEN "contains errors"
    ELSE IF "REVOKED" \in errors THEN "has been revoked"
    ELSE IF "INSECURE" \in errors THEN "weak signature algorithm"
    ELSE IF "NOT_ACTIVATED" \in errors THEN "still in the future"
    ELSE "has not been verified"

\* The message chosen for an errors value (a set of flags).
tls_reason(errors) ==
    IF errors = {"BAD_IDENTITY"} THEN "does not match this website"
    ELSE IF errors = {"EXPIRED"} THEN "has expired"
    ELSE IF errors = {"UNKNOWN_CA"} THEN "authority is not known"
    ELSE IF errors = {"GENERIC_ERROR"} THEN "contains errors"
    ELSE IF errors = {"REVOKED"} THEN "has been revoked"
    ELSE IF errors = {"INSECURE"} THEN "weak signature algorithm"
    ELSE IF errors = {"NOT_ACTIVATED"} THEN "still in the future"
    ELSE "has not been verified"

\* uri.replace("https://", "accept://")
accept_uri(u) == Replace2(u, "https", "://", "accept", "://")

Scheme(u) == urlparse(u).scheme

\* The engine reports a load failure for the URI it is loading.
Loading == load_state \in {"Started", "Committed"}

OnLoadFailedTls(cert, errors) ==
    /\ Loading
    /\ Scheme(uri) = <<"https">>
    /\ bad_tls' = cert
    /\ page' = [kind |-> "tls", action |-> accept_uri(uri),
                reason |-> tls_reason(errors), failed |-> uri, cert |-> cert]
    /\ load_state' = "Failed"
    /\ last' = [Did("load_failed_tls", uri, NoRequest, << >>, {"load_html"},
                    "none", NoneStr, "True") EXCEPT !.errors = errors]
    /\ hist' = [hist EXCEPT !.tls_live = TRUE, !.from = load_state,
                            !.cert = cert, !.accepted = FALSE,
                            !.host = urlparse(uri).netloc]
    /\ UNCHANGED <<loaded_uri, insecure, popup_exception, title,
                   readable_content, js_timeout, private, readVars, connected,
                   auto_load_images>>
    /\ UNCHANGED <<uri, page_title, envVars, asyncVars>>

\* "https://" + parsed.netloc + parsed.path
accept_target(r) ==
    <<"https", "://">> \o urlparse(r).netloc \o urlparse(r).path

\* The requests the engine makes of the accept scheme.
AcceptUris == {AcceptAQ, AcceptB}

OnAcceptScheme(r) ==
    IF bad_tls = NoneCert
    THEN /\ last' = Did("accept_scheme", r, NoRequest, << >>, {}, "none",
                        NoneStr, "None")
         /\ UNCHANGED <<viewVars, readVars, connected, engineVars, envVars, asyncVars, hist>>
    ELSE /\ trusted' = trusted \cup {<<bad_tls, urlparse(r).netloc>>}
         /\ load_uri(accept_target(r))
         /\ last' = Did("accept_scheme", r, NoRequest, << >>,
                        {"allow_tls_certificate_for_host"}
                            \cup load_uri_calls(accept_target(r)),
                        "none", load_uri_target(accept_target(r)), "None")
         /\ hist' = [hist EXCEPT !.tls_live = FALSE, !.accepted = TRUE]
         /\ UNCHANGED <<popup_exception, title, readable_content, js_timeout,
                        private, readVars, connected, auto_load_images>>
         /\ UNCHANGED <<engineVars, envVars, timers, lookups>>

(* ------------------------------------------------------------------ *)
(* Load failures and the network recheck                               *)
(* ------------------------------------------------------------------ *)

RecognizedCodesWide == {2, 4, 44, 302}

\* "Ignore all others errors"
RecognizedCodes == {2, 4, 44}

\* The error codes the engine reports in the model.
ErrorCodes == RecognizedCodes \cup {302}

\* s without its i-th element.
RemoveAt(s, i) == [j \in 1..(Len(s) - 1) |-> IF j < i THEN s[j] ELSE s[j + 1]]

timeout_add_dropped(ts, u) == ts

\* GLib.timeout_add(1000, self.__check_for_network, uri): one more source,
\* whatever sources are pending.
timeout_add(ts, u) == Append(ts, [uri |-> u, superseded |-> FALSE])

OnLoadFailed(code) ==
    /\ Loading
    /\ Scheme(uri) \in {<<"http">>, <<"https">>, <<"file">>}
    /\ load_state' = "Failed"
    /\ hist' = [hist EXCEPT !.from = load_state]
    /\ IF code \notin RecognizedCodes
       THEN /\ last' = [Did("load_failed", uri, NoRequest, << >>, {}, "none",
                            NoneStr, "False") EXCEPT !.code = code]
            /\ UNCHANGED <<page, timers>>
       ELSE /\ page' = [kind |-> "error", action |-> uri,
                        reason |-> IF network THEN "Failed to load this web page"
                                   ELSE "Network not available",
                        failed |-> uri, cert |-> NoneCert]
            /\ IF network
               THEN /\ timers' = timers
                    /\ last' = [Did("load_failed", uri, NoRequest, << >>,
                                    {"load_html", "delete_preview",
                                     "delete_start"},
                                    "none", NoneStr, "True")
                                EXCEPT !.code = code]
               ELSE /\ Len(timers) < MaxTimers
                    /\ timers' = timeout_add(timers, uri)
                    /\ last' = [Did("load_failed", uri, NoRequest, << >>,
                                    {"load_html", "timeout_add"},
                                    "none", NoneStr, "True")
                                EXCEPT !.code = code]
    /\ UNCHANGED <<viewVars, readVars, connected, uri, page_title, envVars, lookups, trusted>>

\* What __check_for_network returns: None after load_uri, else True.
check_for_network_always_true(available) == "True"

check_for_network_returns(available) == IF available THEN "None" ELSE "True"

\* GLib keeps a source whose callback returns a true value.
after_callback(ts, i, ret) == IF ret = "True" THEN ts ELSE RemoveAt(ts, i)

\* WebView.__check_for_network, run by the i-th pending source.
CheckForNetwork(i) ==
    /\ i \in 1..Len(timers)
    /\ IF network
       THEN /\ load_uri(timers[i].uri)
            /\ timers' = after_callback(timers, i, check_for_network_returns(TRUE))
            /\ last' = Did("check_for_network", timers[i].uri, NoRequest,
                           << >>, load_uri_calls(timers[i].uri), "none",
                           load_uri_target(timers[i].uri),
                           check_for_network_returns(TRUE))
            /\ hist' = [hist EXCEPT
                          !.fired = timers[i],
                          !.tls_live = IF StartsNavigation(timers[i].uri)
                                       THEN FALSE ELSE @]
       ELSE /\ timers' = after_callback(timers, i, check_for_network_returns(FALSE))
            /\ last' = Did("check_for_network", timers[i].uri, NoRequest,
                           << >>, {}, "none", NoneStr,
                           check_for_network_returns(FALSE))
            /\ UNCHANGED <<loaded_uri, bad_tls, insecure, hist>>
    /\ UNCHANGED <<popup_exception, title, readable_content, js_timeout,
                   private, readVars, connected, auto_load_images>>
    /\ UNCHANGED <<engineVars, envVars, lookups, trusted>>

(* ------------------------------------------------------------------ *)
(* notify::uri, notify::title and load-changed                         *)
(* ------------------------------------------------------------------ *)

\* The URIs the engine reports as get_uri().
EngineUris == {HttpsAQ, HttpsB, HttpB, FileP, AboutBlank, AcceptAQ}

\* The prefix Readability.js puts before the content it returns as a title.
Sentinel == "@&$%ù²"

Readable == <<Sentinel, "R1">>

\* The values the engine gives its title property; the empty string stands
\* for no title.
EngineTitles == {EmptyStr, <<"T1">>, <<"T2">>, Readable}

\* The titles pages give themselves: the engine's, and the text of the
\* page's own URI.
PageTitles == EngineTitles \cup {HttpB}

\* title.startswith(sentinel)
IsSentinelTitle(t) == Len(t) >= 1 /\ t[1] = Sentinel

\* title.replace(sentinel, "")
StripSentinel(t) == SelectSeq(t, LAMBDA x : x # Sentinel)

OnUriChanged(u) ==
    /\ u # uri
    /\ uri' = u
    /\ readable_content' = EmptyStr
    /\ title' = EmptyStr
    /\ js_timeout' = IF u # AboutBlank THEN "None" ELSE js_timeout
    /\ last' = Did("uri_changed", u, NoRequest, << >>, {}, "none", NoneStr,
                   "None")
    /\ UNCHANGED <<loaded_uri, bad_tls, insecure, popup_exception, private,
                   readVars, connected, auto_load_images, hist>>
    /\ UNCHANGED <<page_title, load_state, page, envVars, asyncVars>>

OnTitleChanged(t) ==
    /\ t # page_title
    /\ page_title' = t
    /\ IF t = EmptyStr \/ t = title
       THEN /\ last' = Did("title_changed", t, NoRequest, << >>, {}, "none",
                           NoneStr, "None")
            /\ UNCHANGED <<title, readable_content, js_timeout>>
       ELSE IF IsSentinelTitle(t)
       THEN /\ readable_content' = StripSentinel(t)
            /\ last' = Did("title_changed", t, NoRequest,
                           <<Signal("readable", EmptyStr, EmptyStr, EmptyStr, FALSE)>>,
                           {}, "none", NoneStr, "None")
            /\ UNCHANGED <<title, js_timeout>>
       ELSE /\ title' = t
            /\ js_timeout' = "set"
            /\ last' = Did("title_changed", t, NoRequest,
                           <<Signal("title-changed", t, EmptyStr, EmptyStr, FALSE)>>,
                           IF js_timeout = "None" THEN {"timeout_add"} ELSE {},
                           "none", NoneStr, "None")
            /\ UNCHANGED readable_content
    /\ hist' = [hist EXCEPT
                  !.titled = @ \/ (t # EmptyStr /\ ~IsSentinelTitle(t))]
    /\ UNCHANGED <<loaded_uri, bad_tls, insecure, popup_exception, private,
                   readVars, connected, auto_load_images>>
    /\ UNCHANGED <<uri, load_state, page, envVars, asyncVars>>

\* ".".join(netloc.split(".")[:-1])
unlocated(netloc) ==
    IF Len(netloc) >= 3 THEN SubSeq(netloc, 1, Len(netloc) - 2) ELSE EmptyStr

\* The hosts N for which /org/gnome/Eolie/adblock holds adblock_N.js.
AdblockScripts == {<<"a">>, <<"b">>, HostB}

\* javascripts: the script of the host, then the script of the unlocated
\* host.
javascripts(u) == <<urlparse(u).netloc, unlocated(urlparse(u).netloc)>>

scripts_run_no_break(u) ==
    IF exception_for(u) THEN << >>
    ELSE SelectSeq(javascripts(u), LAMBDA j : j \in AdblockScripts)

\* The scripts the loop over javascripts runs: it stops at the first that
\* is among the children, and runs it unless the page is an exception.
scripts_run(u) ==
    LET js == javascripts(u)
        hits == {i \in 1..Len(js) : js[i] \in AdblockScripts}
    IN IF hits = {} \/ exception_for(u) THEN << >>
       ELSE <<js[CHOOSE i \in hits : \A j \in hits : i <= j]>>

\* The script run on FINISHED: the first of the exact host and the
\* unlocated host that has a script, unless the page is an exception;
\* NoneStr when none is run.
block_script(u) ==
    IF scripts_run(u) = << >> THEN NoneStr ELSE scripts_run(u)[1]

auto_load_both(imgblock, exception) == ~imgblock /\ exception

\* The auto-load-images value COMMITTED sets: not imgblock or exception.
auto_load(imgblock, exception) == ~imgblock \/ exception

\* Whether FINISHED sends a title of its own.
sends_title(adblock, t) == adblock /\ t = EmptyStr

\* The title FINISHED sends: the engine's, or the URI when it has none.
synthesized_title == IF page_title # EmptyStr THEN page_title ELSE uri

LoadEvents == {"STARTED", "COMMITTED", "FINISHED"}

reset_on_committed(event) == event = "COMMITTED"

reset_on_any(event) == TRUE

\* The event on which the handler resets the popup exception and the
\* cached title.
reset_on(event) == event = "STARTED"

\* A load of a page (not of an error page) that completes while the
\* network is unavailable: it supersedes the pending rechecks of other URIs
\* (timers[i].superseded, kept for the properties only).
CompletesLoad ==
    /\ load_state = "Committed"
    /\ Scheme(uri) \in {<<"http">>, <<"https">>, <<"file">>}
    /\ ~network

OnLoadChanged(event) ==
    /\ uri # NoneStr
    /\ CASE event = "STARTED" ->
              /\ load_state' = "Started"
              /\ last' = Did("load_changed", <<event>>, NoRequest, << >>, {},
                             "none", NoneStr, "None")
              /\ hist' = [hist EXCEPT
                            !.from = load_state,
                            !.titled = FALSE,
                            !.synth = NoneStr,
                            !.tls_live =
                                IF Scheme(uri) \in {<<"http">>, <<"https">>, <<"file">>}
                                THEN FALSE ELSE @]
              /\ UNCHANGED <<auto_load_images, timers>>
         [] event = "COMMITTED" ->
              /\ load_state = "Started"
              /\ load_state' = "Committed"
              /\ auto_load_images' = auto_load(settings.imgblock,
                                               exception_for(uri))
              /\ last' = Did("load_changed", <<event>>, NoRequest, << >>,
                             {"update_zoom_level"}, "none", NoneStr, "None")
              /\ hist' = [hist EXCEPT !.from = load_state]
              /\ UNCHANGED timers
         [] event = "FINISHED" ->
              /\ load_state \in {"Committed", "Failed"}
              /\ load_state' = "Finished"
              /\ last' = [Did("load_changed", <<event>>, NoRequest,
                              IF sends_title(settings.adblock, title)
                              THEN <<Signal("title-changed", synthesized_title,
                                            EmptyStr, EmptyStr, FALSE)>>
                              ELSE << >>,
                              IF settings.adblock /\ block_script(uri) # NoneStr
                              THEN {"run_javascript_from_gresource"} ELSE {},
                              "none", NoneStr, "None")
                          EXCEPT !.script = IF settings.adblock
                                            THEN block_script(uri) ELSE NoneStr,
                                 !.scripts = IF settings.adblock
                                             THEN scripts_run(uri) ELSE << >>]
              /\ hist' = [hist EXCEPT
                            !.from = load_state,
                            !.synth = IF sends_title(settings.adblock, title)
                                      THEN synthesized_title ELSE @]
              /\ timers' = IF CompletesLoad
                           THEN [i \in 1..Len(timers) |->
                                   [timers[i] EXCEPT
                                      !.superseded = @ \/ timers[i].uri # uri]]
                           ELSE timers
              /\ UNCHANGED auto_load_images
    /\ popup_exception' = IF reset_on(event) THEN NoneStr ELSE popup_exception
    /\ title' = IF reset_on(event) THEN EmptyStr
                ELSE IF event = "FINISHED" /\ sends_title(settings.adblock, title)
                THEN synthesized_title
                ELSE title
    /\ UNCHANGED <<loaded_uri, bad_tls, insecure, readable_content, js_timeout,
                   private, readVars, connected>>
    /\ UNCHANGED <<uri, page_title, page, envVars, lookups, trusted>>

(* ------------------------------------------------------------------ *)
(* Form submission and the GetForms lookup                             *)
(* ------------------------------------------------------------------ *)

starts_lookup_always(ephemeral) == TRUE

\* Whether a form submission asks GetForms for the form's credentials.
starts_lookup(ephemeral) == ~ephemeral

OnSubmitForm ==
    /\ uri # NoneStr
    /\ IF ~starts_lookup(private)
       THEN /\ last' = Did("submit_form", uri, NoRequest, << >>, {}, "none",
                           NoneStr, "None")
            /\ UNCHANGED lookups
       ELSE /\ Len(lookups) < MaxLookups
            /\ lookups' = Append(lookups, [page |-> uri])
            /\ last' = Did("submit_form", uri, NoRequest, << >>, {"GetForms"},
                           "none", NoneStr, "None")
    /\ UNCHANGED <<viewVars, readVars, connected, engineVars, envVars, timers, trusted, hist>>

\* What GetForms returns as username and password.
Credentials == {EmptyStr, <<"secret">>}

\* The host save-password is emitted with.
save_host(submitted, current) == urlparse(current).netloc

\* The reply to the i-th lookup: call_finish raises (failed) or returns a
\* username and a password.
OnGetForms(i, failed, username, password) ==
    /\ i \in 1..Len(lookups)
    /\ lookups' = RemoveAt(lookups, i)
    /\ IF failed
       THEN last' = Did("get_forms", lookups[i].page, NoRequest, << >>,
                        {"print"}, "none", NoneStr, "None")
       ELSE IF username = EmptyStr \/ password = EmptyStr
       THEN last' = Did("get_forms", lookups[i].page, NoRequest, << >>, {},
                        "none", NoneStr, "None")
       ELSE last' = Did("get_forms", lookups[i].page, NoRequest,
                        <<Signal("save-password", username, password,
                                 save_host(lookups[i].page, uri), FALSE)>>,
                        {"submit"}, "none", NoneStr, "None")
    /\ UNCHANGED <<viewVars, readVars, connected, engineVars, envVars, timers, trusted, hist>>

(* ------------------------------------------------------------------ *)
(* View.switch_read_mode                                               *)
(* ------------------------------------------------------------------ *)

\* The sizes the system's document-font-name ends with.
FontSizes == {9, 11}

\* str(int(document_font_name[-2:]) * 1.3) + "pt", in tenths of a point.
document_font_size(size) == size * 13

\* The html of the readable version; the allocated width is left out.
reading_html(size) ==
    [font_size |-> document_font_size(size), title |-> page_title,
     content |-> readable_content]

reading_in_mode == in_read_mode = "True"

\* View.reading
reading == reading_view.exists

\* Gtk.Widget.destroy takes the widget out of the overlay that holds it.
destroyed(widgets, widget) == SelectSeq(widgets, LAMBDA w : w # widget)

\* Whether switch_read_mode fills the reading view it has created.
fills_overlay(content) == content # EmptyStr

SwitchReadMode(size) ==
    /\ IF ~reading
       THEN /\ reading_view' =
                  [exists |-> TRUE,
                   html |-> IF fills_overlay(readable_content)
                            THEN reading_html(size) ELSE NoHtml]
            /\ overlays' = Append(overlays, "reading_view")
            /\ in_read_mode' = IF fills_overlay(readable_content)
                               THEN "True" ELSE in_read_mode
            /\ last' = Did("switch_read_mode", readable_content, NoRequest,
                           << >>,
                           IF fills_overlay(readable_content)
                           THEN {"add_overlay", "idle_add"}
                           ELSE {"add_overlay"},
                           "none", NoneStr, "None")
       ELSE /\ reading_view' = NoReadingView
            /\ overlays' = destroyed(overlays, "reading_view")
            /\ last' = Did("switch_read_mode", readable_content, NoRequest,
                           << >>, {"destroy"}, "none", NoneStr, "None")
            /\ UNCHANGED in_read_mode
    /\ UNCHANGED <<viewVars, engineVars, envVars, asyncVars, connected, hist>>

(* ------------------------------------------------------------------ *)
(* Permission requests                                                 *)
(* ------------------------------------------------------------------ *)

\* WebView.__on_insecure_content_detected
OnInsecureContentDetected ==
    /\ insecure' = "True"
    /\ last' = Did("insecure_content_detected", NoneStr, NoRequest, << >>, {},
                   "none", NoneStr, "None")
    /\ UNCHANGED <<loaded_uri, bad_tls, popup_exception, title,
                   readable_content, js_timeout, private, auto_load_images>>
    /\ UNCHANGED <<readVars, connected, engineVars, envVars, asyncVars, hist>>

\* The classes of permission request the engine makes.
PermissionRequests == {"geolocation", "notification", "other"}

\* What the handler does with a request: the method it calls on the
\* request and what it raises. Reading __insecure_content_detected before
\* any assignment of it raises AttributeError.
permission_outcome(kind, detected, ephemeral) ==
    CASE kind = "geolocation" ->
            IF detected = "unset"
            THEN [decision |-> "none", ret |-> "AttributeError"]
            ELSE IF detected = "True" \/ ephemeral
            THEN [decision |-> "deny", ret |-> "None"]
            ELSE [decision |-> "allow", ret |-> "None"]
      [] kind = "notification" -> [decision |-> "allow", ret |-> "None"]
      [] OTHER -> [decision |-> "none", ret |-> "None"]

OnPermissionRequest(kind) ==
    /\ last' = Did("permission_request", <<kind>>, NoRequest, << >>, {},
                   permission_outcome(kind, insecure, private).decision,
                   NoneStr,
                   permission_outcome(kind, insecure, private).ret)
    /\ UNCHANGED <<viewVars, readVars, connected, engineVars, envVars,
                   asyncVars, hist>>

(* ------------------------------------------------------------------ *)
(* WebView.__on_download_started                                       *)
(* ------------------------------------------------------------------ *)

\* WebView.new and WebView.new_with_related_view: one more view on the web
\* context of this view; its __init connects its own handler to the
\* context's download-started.
NewView ==
    /\ connected < MaxViews
    /\ connected' = connected + 1
    /\ last' = Did("new_view", NoneStr, NoRequest, << >>, {"connect"}, "none",
                   NoneStr, "None")
    /\ UNCHANGED <<viewVars, readVars, engineVars, envVars, asyncVars, hist>>

\* The context emits download-started: every connected handler runs and
\* calls download_manager.add; those of the views that are in a window
\* (windowed of them) show the download.
OnDownloadStarted(windowed) ==
    /\ windowed \in 0..connected
    /\ last' = [Did("download_started", NoneStr, NoRequest, << >>,
                    IF windowed > 0
                    THEN {"download_manager.add", "show_download"}
                    ELSE {"download_manager.add"},
                    "none", NoneStr, "None")
                EXCEPT !.adds = connected]
    /\ UNCHANGED <<viewVars, readVars, connected, engineVars, envVars,
                   asyncVars, hist>>

(* ------------------------------------------------------------------ *)
(* The environment                                                     *)
(* ------------------------------------------------------------------ *)

\* A change outside the view: no handler of the view has run since.
Environment ==
    Did("environment", NoneStr, NoRequest, << >>, {}, "none", NoneStr, "None")

NetworkChanged ==
    /\ network' = ~network
    /\ last' = Environment
    /\ UNCHANGED <<viewVars, readVars, connected, engineVars, settings, exceptions, asyncVars, hist>>

SettingKeys == {"popupblock", "adblock", "imgblock"}

SettingChanged(key) ==
    /\ key \in SettingKeys
    /\ settings' = [settings EXCEPT ![key] = ~@]
    /\ last' = Environment
    /\ UNCHANGED <<viewVars, readVars, connected, engineVars, network, exceptions, asyncVars, hist>>

\* The exception lists a user keeps: none, a host, a host with a path.
ExceptionSets == {{}, {HostA}, {HostB \o <<"/x">>}}

ExceptionsChanged(e) ==
    /\ e # exceptions
    /\ exceptions' = e
    /\ last' = Environment
    /\ UNCHANGED <<viewVars, readVars, connected, engineVars, network, settings, asyncVars, hist>>

(* ------------------------------------------------------------------ *)
(* Specifications                                                      *)
(* ------------------------------------------------------------------ *)

\* Every handler and every change of the environment.
Next ==
    \/ \E u \in LoadUriArgs : LoadUri(u)
    \/ \E u \in EngineUris : SetPopupException(u)
    \/ \E req \in PolicyRequests : OnDecidePolicy(req)
    \/ \E c \in Certs, e \in SUBSET TlsFlags : OnLoadFailedTls(c, e)
    \/ \E r \in AcceptUris : OnAcceptScheme(r)
    \/ \E code \in ErrorCodes : OnLoadFailed(code)
    \/ \E i \in 1..MaxTimers : CheckForNetwork(i)
    \/ \E u \in EngineUris : OnUriChanged(u)
    \/ \E t \in EngineTitles : OnTitleChanged(t)
    \/ \E event \in LoadEvents : OnLoadChanged(event)
    \/ OnSubmitForm
    \/ \E i \in 1..MaxLookups, f \in BOOLEAN, n \in Credentials, w \in Credentials :
          OnGetForms(i, f, n, w)
    \/ \E size \in FontSizes : SwitchReadMode(size)
    \/ NewView
    \/ \E windowed \in 0..MaxViews : OnDownloadStarted(windowed)
    \/ OnInsecureContentDetected
    \/ \E kind \in PermissionRequests : OnPermissionRequest(kind)
    \/ NetworkChanged
    \/ \E key \in SettingKeys : SettingChanged(key)
    \/ \E e \in ExceptionSets : ExceptionsChanged(e)

Spec == Init /\ [][Next]_vars

\* The navigation policy: every decide-policy request under every popup
\* setting and exception list.
NextPolicy ==
    \/ \E req \in PolicyRequests : OnDecidePolicy(req)
    \/ SettingChanged("popupblock")
    \/ \E e \in ExceptionSets : ExceptionsChanged(e)

SpecPolicy == Init /\ [][NextPolicy]_vars

\* The navigation policy on a view whose fields the other handlers have set.
NextPolicyView ==
    \/ \E req \in {r \in PolicyRequests : r.uri = HttpB /\ ~r.can_show} :
          OnDecidePolicy(req)
    \/ SetPopupException(HttpB)
    \/ OnUriChanged(HttpsAQ)
    \/ OnLoadChanged("STARTED")
    \/ OnLoadFailedTls("certA", {"EXPIRED"})
    \/ OnTitleChanged(<<"T1">>)
    \/ SettingChanged("popupblock")

SpecPolicyView == Init /\ [][NextPolicyView]_vars

\* The TLS override: failures, the accept scheme and the navigations
\* between them.
NextTls ==
    \/ \E u \in {AboutBlank, HttpsB, SchemelessB, AcceptAQ} : LoadUri(u)
    \/ \E u \in {HttpsAQ, HttpsB} : OnUriChanged(u)
    \/ \E event \in LoadEvents : OnLoadChanged(event)
    \/ \E c \in Certs : OnLoadFailedTls(c, {"EXPIRED"})
    \/ \E r \in AcceptUris : OnAcceptScheme(r)

SpecTls == Init /\ [][NextTls]_vars

\* Load failures, the network and the recheck timer.
NextNet ==
    \/ \E u \in {HttpB, FileP} : OnUriChanged(u)
    \/ \E event \in LoadEvents : OnLoadChanged(event)
    \/ \E code \in ErrorCodes : OnLoadFailed(code)
    \/ \E i \in 1..MaxTimers : CheckForNetwork(i)
    \/ NetworkChanged

SpecNet == Init /\ [][NextNet]_vars

\* Failing loads and their rechecks alone.
NextRecheck ==
    \/ \E u \in {HttpB, FileP} : OnUriChanged(u)
    \/ OnLoadChanged("STARTED")
    \/ \E code \in ErrorCodes : OnLoadFailed(code)
    \/ \E i \in 1..MaxTimers : CheckForNetwork(i)
    \/ NetworkChanged

\* GLib's main loop runs every pending timeout source again and again.
FairSpecRecheck ==
    /\ Init
    /\ [][NextRecheck]_vars
    /\ WF_vars(\E i \in 1..MaxTimers : CheckForNetwork(i))

\* Form submissions and their lookups while the view moves between pages.
NextForms ==
    \/ \E u \in {HttpsAQ, HttpB, AboutBlank} : OnUriChanged(u)
    \/ \E event \in LoadEvents : OnLoadChanged(event)
    \/ OnSubmitForm
    \/ \E i \in 1..MaxLookups, f \in BOOLEAN, n \in Credentials, w \in Credentials :
          OnGetForms(i, f, n, w)

SpecForms == Init /\ [][NextForms]_vars

\* The same on a view of either kind.
SpecFormsAny == InitAny /\ [][NextForms]_vars

\* The load callbacks with the titles and the settings they read.
NextLoad ==
    \/ \E u \in {HttpsAQ, HttpB, AboutBlank} : OnUriChanged(u)
    \/ \E t \in EngineTitles : OnTitleChanged(t)
    \/ \E event \in LoadEvents : OnLoadChanged(event)
    \/ \E code \in ErrorCodes : OnLoadFailed(code)
    \/ \E key \in {"adblock", "imgblock"} : SettingChanged(key)
    \/ \E e \in ExceptionSets : ExceptionsChanged(e)
    \/ \E u \in {HttpB} : SetPopupException(u)

SpecLoad == Init /\ [][NextLoad]_vars

\* The read mode of a view whose page and titles change.
NextRead ==
    \/ \E u \in {HttpsAQ, HttpB} : OnUriChanged(u)
    \/ \E t \in EngineTitles : OnTitleChanged(t)
    \/ \E size \in FontSizes : SwitchReadMode(size)

SpecRead == Init /\ [][NextRead]_vars

\* The cached title over the loads of a view.
NextTitle ==
    \/ \E u \in {HttpsAQ, HttpB} : OnUriChanged(u)
    \/ \E t \in PageTitles : OnTitleChanged(t)
    \/ \E event \in LoadEvents : OnLoadChanged(event)
    \/ SettingChanged("adblock")

SpecTitle == Init /\ [][NextTitle]_vars

\* The popup exception under every event of the view.
NextPopup ==
    \/ \E u \in {HttpsAQ, HttpB} : SetPopupException(u)
    \/ LoadUri(HttpB)
    \/ \E u \in {HttpsAQ, HttpB} : OnUriChanged(u)
    \/ OnTitleChanged(<<"T1">>)
    \/ \E event \in LoadEvents : OnLoadChanged(event)
    \/ \E code \in ErrorCodes : OnLoadFailed(code)
    \/ OnLoadFailedTls("certA", {"EXPIRED"})
    \/ \E req \in {r \in PolicyRequests :
                      /\ r.uri = HttpB /\ ~r.can_show
                      /\ r.navigation_type = "OTHER"} : OnDecidePolicy(req)

SpecPopup == Init /\ [][NextPopup]_vars

\* TLS failures with every value of the error flags.
NextTlsReason ==
    \/ \E u \in {HttpsAQ, HttpsB} : OnUriChanged(u)
    \/ OnLoadChanged("STARTED")
    \/ \E c \in Certs, e \in SUBSET TlsFlags : OnLoadFailedTls(c, e)

SpecTlsReason == Init /\ [][NextTlsReason]_vars

\* Downloads of a context that several views share.
NextDownload ==
    \/ NewView
    \/ \E windowed \in 0..MaxViews : OnDownloadStarted(windowed)
    \/ \E u \in {HttpsAQ, HttpB} : OnUriChanged(u)
    \/ \E t \in EngineTitles : OnTitleChanged(t)

SpecDownload == Init /\ [][NextDownload]_vars

\* Permission requests on a view of either kind, whatever it has loaded.
NextPermission ==
    \/ \E u \in LoadUriArgs : LoadUri(u)
    \/ OnInsecureContentDetected
    \/ \E kind \in PermissionRequests : OnPermissionRequest(kind)

SpecPermission == InitAny /\ [][NextPermission]_vars

(* ------------------------------------------------------------------ *)
(* Properties                                                          *)
(* ------------------------------------------------------------------ *)

\* The last handler run was decide-policy.
Decided == last.op = "decide_policy"

\* The request is a script-opened new window that the popup block covers.
SuppressedPopup(req) ==
    /\ req.decision_type = "NEW_WINDOW_ACTION"
    /\ req.mouse_button = 0
    /\ req.navigation_type \in {"OTHER", "RELOAD", "BACK_FORWARD"}
    /\ settings.popupblock
    /\ ~exception_for(req.uri)

\* C1: for a NEW_WINDOW_ACTION with mouse button 0, a navigation type in
\* {OTHER, RELOAD, BACK_FORWARD}, popupblock true and no exception for the
\* URI, no new-page signal is emitted, the decision is not ignored, and Use
\* is the decision delivered to the engine.
C1_PopupSuppressedUse ==
    (Decided /\ SuppressedPopup(last.req)) =>
        /\ last.emitted = << >>
        /\ last.decision # "ignore"
        /\ last.decision = "use"

\* C2: the stored rejected certificate is non-null only if a TLS failure
\* has occurred and, since that failure, there has been neither an accepted
\* override nor the start of a navigation to a target that is not of the
\* accept scheme (by load_uri with any form of URI, or started by the
\* engine).
C2_PendingCertificate == bad_tls # NoneCert => hist.tls_live

\* The last handler run answered the accept request of the interstitial on
\* display while a certificate was pending.
AcceptedFromInterstitial ==
    /\ last.op = "accept_scheme"
    /\ page.kind = "tls"
    /\ last.arg = page.action
    /\ "allow_tls_certificate_for_host" \in last.calls

\* C3: when the accept request produced by the interstitial for a failed
\* HTTPS URI u is handled while a certificate is pending, the captured
\* certificate is registered as trusted for u's host and the view loads
\* exactly u: same host, path and query.
C3_AcceptReloadsOriginal ==
    AcceptedFromInterstitial =>
        /\ <<page.cert, urlparse(page.failed).netloc>> \in trusted
        /\ last.loaded = page.failed

\* C4: a recheck scheduled by a failure while the network was unavailable
\* is cancelled when another load completes before connectivity returns:
\* the timer never re-navigates the view after such a load.
C4_RecheckCancelled ==
    (last.op = "check_for_network" /\ last.loaded # NoneStr) =>
        ~hist.fired.superseded

\* A step that is a run of __check_for_network.
RecheckStep == last'.op = "check_for_network" /\ vars' # vars

\* The recheck of u has made its load_uri(u).
Reloaded(u) == last.op = "check_for_network" /\ last.loaded = u

\* A recheck of u is pending.
Rechecking(u) == \E i \in 1..Len(timers) : timers[i].uri = u

\* C5: while the network is unavailable a recheck makes no load and stays
\* scheduled; at the first recheck with the network available it calls
\* load_uri(u) once and is not scheduled again; under fairness of the
\* timer, if the network eventually stays available, u is eventually
\* reloaded.
C5_RecheckReloadsOnce ==
    /\ [][RecheckStep =>
            IF network
            THEN /\ last'.loaded = last'.arg
                 /\ loaded_uri' = last'.arg
                 /\ \E i \in 1..Len(timers) :
                       /\ timers[i].uri = last'.arg
                       /\ timers' = RemoveAt(timers, i)
            ELSE /\ last'.loaded = NoneStr
                 /\ last'.calls = {}
                 /\ timers' = timers
                 /\ loaded_uri' = loaded_uri]_vars
    /\ (<>[]network) =>
          \A u \in {HttpB, FileP} : [](Rechecking(u) => <>Reloaded(u))

\* A recheck has reloaded the URI that failed.
C5_Witness ==
    /\ last.op = "check_for_network"
    /\ last.loaded = HttpB
    /\ loaded_uri = HttpB
    /\ timers = << >>
    /\ page.kind = "error" /\ page.failed = HttpB

\* C6: a view has at most one network-recheck timer outstanding at any
\* time.
C6_SingleTimer == Len(timers) <= 1

\* C7: a GetForms reply that arrives after the view has moved to another
\* page emits no save-password.
C7_LateLookupNoOp ==
    (last.op = "get_forms" /\ last.arg # uri) => last.emitted = << >>

\* C8 as stated: handling a decide-policy event changes no field of the
\* view.
C8_DecidePolicyPure ==
    [][last'.op = "decide_policy" =>
          UNCHANGED <<loaded_uri, bad_tls, popup_exception, title>>]_vars

\* C8 as amended: handling a decide-policy event changes no field of the
\* view but __loaded_uri, which a non-Response request with mouse button 1
\* sets to the request's URI and every other request leaves alone; and an
\* identical request under identical settings gets the identical decision.
C8_DecidePolicyFrame ==
    [][last'.op = "decide_policy" =>
          /\ UNCHANGED <<bad_tls, insecure, popup_exception, title,
                         readable_content, js_timeout, auto_load_images>>
          /\ loaded_uri' = IF last'.req.decision_type # "RESPONSE"
                              /\ last'.req.mouse_button = 1
                           THEN last'.req.uri ELSE loaded_uri
          /\ (Decided /\ last.req = last'.req) =>
                /\ last'.emitted = last.emitted
                /\ last'.decision = last.decision
                /\ last'.ret = last.ret]_vars

\* A left click decided on a view with a pending certificate, a popup
\* exception and a cached title.
C8_Witness ==
    /\ Decided
    /\ last.req.mouse_button = 1
    /\ loaded_uri = last.req.uri
    /\ bad_tls # NoneCert
    /\ popup_exception # NoneStr
    /\ title # EmptyStr

\* C9: on every FINISHED reached with no cached title, a title is
\* synthesized and announced by title-changed, whatever the adblock
\* setting.
C9_TitleSynthesized ==
    [][(last'.op = "load_changed" /\ last'.arg = <<"FINISHED">>
        /\ load_state # "Finished" /\ title = EmptyStr) =>
          /\ title' # EmptyStr
          /\ last'.emitted =
                <<Signal("title-changed", title', EmptyStr, EmptyStr, FALSE)>>]_vars

\* C10: for every non-Response decision whose mouse button is neither 0
\* nor 1, new-page(uri, False) is emitted exactly once and the decision is
\* ignored, whatever the popupblock setting, the exceptions and the
\* navigation type.
C10_ModifiedClickSpawns ==
    (Decided /\ last.req.decision_type # "RESPONSE"
     /\ last.req.mouse_button \notin {0, 1}) =>
        /\ last.emitted = <<Signal("new-page", last.req.uri, EmptyStr,
                                   EmptyStr, FALSE)>>
        /\ last.decision = "ignore"

\* A middle click on a new-window link that the popup block would have
\* suppressed had it come from a script.
C10_Witness ==
    /\ Decided
    /\ last.req.mouse_button = 2
    /\ last.req.decision_type = "NEW_WINDOW_ACTION"
    /\ last.req.navigation_type = "OTHER"
    /\ settings.popupblock
    /\ ~exception_for(last.req.uri)
    /\ last.decision = "ignore"

\* C11: for every decide-policy event of kind RESPONSE the decision is Use
\* when the engine can show the MIME type and Download otherwise, whatever
\* the mouse button, the navigation type, the popupblock setting and the
\* exceptions, and no new-page signal is emitted; two Response requests in
\* a row that agree on renderability get the same decision.
C11_ResponseByMime ==
    [][(last'.op = "decide_policy" /\ last'.req.decision_type = "RESPONSE") =>
          /\ last'.emitted = << >>
          /\ last'.decision = IF last'.req.can_show THEN "use" ELSE "download"
          /\ (Decided /\ last.req.decision_type = "RESPONSE"
              /\ last.req.can_show = last'.req.can_show) =>
                 last'.decision = last.decision]_vars

\* A Response that cannot be shown, asked with a middle click under an
\* exception and with the popup block off, after a click the block covers.
C11_Witness ==
    /\ Decided
    /\ last.req.decision_type = "RESPONSE"
    /\ ~last.req.can_show
    /\ last.req.mouse_button = 2
    /\ last.req.navigation_type = "LINK_CLICKED"
    /\ ~settings.popupblock
    /\ exception_for(last.req.uri)
    /\ last.decision = "download"

\* The request is a script-opened new window that the popup block lets
\* through.
BypassedPopup(req) ==
    /\ req.decision_type = "NEW_WINDOW_ACTION"
    /\ req.mouse_button = 0
    /\ \/ exception_for(req.uri)
       \/ ~settings.popupblock
       \/ req.navigation_type \notin {"OTHER", "RELOAD", "BACK_FORWARD"}

\* C12: for a NEW_WINDOW_ACTION with mouse button 0, if the URI's host or
\* host+path is an exception, or popupblock is false, or the navigation type
\* is none of OTHER, RELOAD, BACK_FORWARD, then new-page(uri, True) is
\* emitted exactly once and the decision is ignored.
C12_PopupBypass ==
    (Decided /\ BypassedPopup(last.req)) =>
        /\ last.emitted = <<Signal("new-page", last.req.uri, EmptyStr,
                                   EmptyStr, TRUE)>>
        /\ last.decision = "ignore"

\* The popup block is off and nothing else lets the popup through.
C12_Witness ==
    /\ Decided
    /\ last.req.decision_type = "NEW_WINDOW_ACTION"
    /\ last.req.mouse_button = 0
    /\ last.req.navigation_type = "RELOAD"
    /\ ~settings.popupblock
    /\ ~exception_for(last.req.uri)
    /\ last.decision = "ignore"
    /\ Len(last.emitted) = 1

\* C13: a NAVIGATION_ACTION with mouse button 0 is decided Use with no
\* new-page; with mouse button 1 a NEW_WINDOW_ACTION emits
\* new-page(uri, True) and is ignored and a NAVIGATION_ACTION is decided Use
\* with no new-page; whatever the popupblock setting and the exceptions.
C13_InPlaceAndLeftClick ==
    Decided =>
        /\ (last.req.decision_type = "NAVIGATION_ACTION"
            /\ last.req.mouse_button \in {0, 1}) =>
               (last.emitted = << >> /\ last.decision = "use")
        /\ (last.req.decision_type = "NEW_WINDOW_ACTION"
            /\ last.req.mouse_button = 1) =>
               /\ last.emitted = <<Signal("new-page", last.req.uri, EmptyStr,
                                          EmptyStr, TRUE)>>
               /\ last.decision = "ignore"

\* A left click on a new-window link that the popup block would have
\* suppressed had it come from a script.
C13_Witness ==
    /\ Decided
    /\ last.req.mouse_button = 1
    /\ last.req.decision_type = "NEW_WINDOW_ACTION"
    /\ last.req.navigation_type = "OTHER"
    /\ settings.popupblock
    /\ ~exception_for(last.req.uri)
    /\ last.decision = "ignore"

\* C14: a load failure with a code outside {2, 4, 44} is reported unhandled
\* and changes nothing: no error page is loaded, no recheck timer is
\* scheduled, no thumbnail is deleted and no field of the view is modified,
\* whether or not the network is available.
C14_UnrecognizedPassThrough ==
    [][(last'.op = "load_failed" /\ last'.code \notin {2, 4, 44}) =>
          /\ last'.ret = "False"
          /\ last'.calls = {}
          /\ last'.emitted = << >>
          /\ page' = page
          /\ timers' = timers
          /\ UNCHANGED viewVars]_vars

\* An unrecognized failure while the network is unavailable, on a view
\* that shows no error page.
C14_Witness ==
    /\ last.op = "load_failed"
    /\ last.code = 302
    /\ ~network
    /\ page.kind = "none"
    /\ timers = << >>
    /\ last.ret = "False"

\* C15: a load failure with a code in {2, 4, 44} loads an error page and is
\* reported handled; with the network available the preview and start
\* thumbnails of the failed URI are deleted and no recheck timer is
\* scheduled; with the network unavailable no thumbnail is deleted and a
\* recheck timer for the failed URI is scheduled.
C15_RecognizedOutcomes ==
    [][(last'.op = "load_failed" /\ last'.code \in {2, 4, 44}) =>
          /\ last'.ret = "True"
          /\ "load_html" \in last'.calls
          /\ page'.kind = "error"
          /\ page'.failed = last'.arg
          /\ IF network
             THEN /\ {"delete_preview", "delete_start"} \subseteq last'.calls
                  /\ "timeout_add" \notin last'.calls
                  /\ timers' = timers
             ELSE /\ last'.calls \cap {"delete_preview", "delete_start"} = {}
                  /\ "timeout_add" \in last'.calls
                  /\ Len(timers') = Len(timers) + 1
                  /\ timers'[Len(timers')].uri = last'.arg
                  /\ \A i \in 1..Len(timers) : timers'[i] = timers[i]]_vars

\* A recognized failure while the network is unavailable has scheduled the
\* recheck of the URI that failed.
C15_Witness ==
    /\ last.op = "load_failed"
    /\ last.code = 44
    /\ ~network
    /\ page.kind = "error"
    /\ page.failed = HttpB
    /\ Len(timers) = 1
    /\ timers[1].uri = HttpB

\* C16: each TLS failure overwrites the captured certificate, so an
\* accepted override registers the certificate of the most recent TLS
\* failure; after an accepted override the pending certificate is cleared,
\* so a further accept request arriving without a new TLS failure registers
\* no certificate and starts no load.
C16_SinglePendingCertificate ==
    [][/\ last'.op = "load_failed_tls" => bad_tls' = hist'.cert
       /\ (last'.op = "accept_scheme" /\ trusted' # trusted) =>
             trusted' = trusted \cup {<<hist.cert, urlparse(last'.arg).netloc>>}
       /\ (last'.op = "accept_scheme"
           /\ "allow_tls_certificate_for_host" \in last'.calls) =>
             /\ <<hist.cert, urlparse(last'.arg).netloc>> \in trusted'
             /\ bad_tls' = NoneCert
       /\ (last'.op = "accept_scheme" /\ hist.accepted) =>
             /\ trusted' = trusted
             /\ last'.calls = {}
             /\ last'.loaded = NoneStr
             /\ loaded_uri' = loaded_uri]_vars

\* A second accept request after the override of the second of two
\* failures was accepted: only the later certificate is trusted.
C16_Witness ==
    /\ last.op = "accept_scheme"
    /\ last.calls = {}
    /\ hist.accepted
    /\ hist.cert = "certB"
    /\ trusted = {<<"certB", HostA>>}
    /\ bad_tls = NoneCert

\* C20: switch_read_mode on a view that is not in read mode shows the
\* readable version of the page if the webview has readable content; when
\* readable_content is empty the view does not enter read mode: reading
\* stays False and no overlay covers the page.
C20_ReadModeOnlyWhenAvailable ==
    [][(last'.op = "switch_read_mode" /\ ~reading) =>
          IF readable_content # EmptyStr
          THEN /\ reading'
               /\ reading_view'.html.content = readable_content
               /\ \E i \in DOMAIN overlays' : overlays'[i] = "reading_view"
          ELSE /\ ~reading'
               /\ \A i \in DOMAIN overlays' : overlays'[i] # "reading_view"]_vars

\* A step that is the handling of load-changed STARTED.
StartedStep == last'.op = "load_changed" /\ last'.arg = <<"STARTED">>

\* A step that notifies the first title, neither empty nor readable
\* content, since the last STARTED.
FirstTitleStep ==
    /\ last'.op = "title_changed"
    /\ last'.arg # EmptyStr
    /\ ~IsSentinelTitle(last'.arg)
    /\ load_state # "Idle"
    /\ ~hist.titled

\* C17 as stated: right after every STARTED the cached title is empty, and
\* the first non-empty, non-sentinel title notified after a STARTED is
\* always announced by title-changed.
C17_FirstTitleAnnounced ==
    [][/\ StartedStep => title' = EmptyStr
       /\ FirstTitleStep =>
             last'.emitted = <<Signal("title-changed", last'.arg, EmptyStr,
                                      EmptyStr, FALSE)>>]_vars

\* C17 as amended: right after every STARTED the cached title is empty,
\* and the first non-empty, non-sentinel title notified after a STARTED is
\* announced by title-changed, unless the FINISHED of that load has
\* already announced the same text as the title it synthesized and that
\* text is still the cached title.
C17_FirstTitleAnnouncedOnce ==
    [][/\ StartedStep => title' = EmptyStr
       /\ FirstTitleStep =>
             IF title = last'.arg
             THEN /\ hist.synth = last'.arg
                  /\ last'.emitted = << >>
             ELSE /\ last'.emitted = <<Signal("title-changed", last'.arg,
                                              EmptyStr, EmptyStr, FALSE)>>
                  /\ title' = last'.arg]_vars

\* The first title of a load that has started, announced.
C17_Witness ==
    /\ last.op = "title_changed"
    /\ last.arg = <<"T1">>
    /\ load_state = "Started"
    /\ title = <<"T1">>
    /\ last.emitted = <<Signal("title-changed", <<"T1">>, EmptyStr, EmptyStr,
                               FALSE)>>

\* C18: a URI marked with set_popup_exception is returned by
\* popup_exception until the next load is started: right after every
\* STARTED popup_exception is None, and no other event (COMMITTED,
\* FINISHED, a load failure, a policy decision, a title or URI change)
\* clears or changes it.
C18_PopupExceptionLifetime ==
    [][/\ last'.op = "set_popup_exception" => popup_exception' = last'.arg
       /\ StartedStep => popup_exception' = NoneStr
       /\ (last'.op # "set_popup_exception" /\ ~StartedStep) =>
             popup_exception' = popup_exception]_vars

\* A marked URI has outlived the failure of the load it was marked in.
C18_Witness ==
    /\ popup_exception = HttpB
    /\ last.op = "load_changed"
    /\ last.arg = <<"FINISHED">>
    /\ hist.from = "Failed"

\* The last handler run handled load-changed FINISHED.
Finished == last.op = "load_changed" /\ last.arg = <<"FINISHED">>

\* C21: at most one block script is run per FINISHED; none is run when
\* the adblock setting is off or the page's host or host+path is an
\* exception; when the exact host has a script it is the one run, and the
\* script of the host with its last label stripped is run only when the
\* exact host has none.
C21_OneBlockScript ==
    Finished =>
        LET netloc == urlparse(uri).netloc
            excepted == \/ is_an_exception(netloc)
                        \/ is_an_exception(netloc \o urlparse(uri).path)
        IN /\ Len(last.scripts) <= 1
           /\ (~settings.adblock \/ excepted) => last.scripts = << >>
           /\ (settings.adblock /\ ~excepted /\ netloc \in AdblockScripts) =>
                 last.scripts = <<netloc>>
           /\ (settings.adblock /\ ~excepted /\ netloc \notin AdblockScripts
               /\ unlocated(netloc) \in AdblockScripts) =>
                 last.scripts = <<unlocated(netloc)>>
           /\ (netloc \notin AdblockScripts
               /\ unlocated(netloc) \notin AdblockScripts) =>
                 last.scripts = << >>

\* FINISHED on a page whose exact host and stripped host both have a
\* script: the script of the exact host was run.
C21_Witness ==
    /\ Finished
    /\ uri = HttpB
    /\ HostB \in AdblockScripts
    /\ unlocated(HostB) \in AdblockScripts
    /\ last.scripts = <<HostB>>

\* C22: after every COMMITTED the auto-load-images setting equals
\* (NOT imgblock) OR isException(host) OR isException(host+path) for the
\* committed URI, and no other event changes the setting.
C22_ImageAutoload ==
    [][IF last'.op = "load_changed" /\ last'.arg = <<"COMMITTED">>
       THEN auto_load_images' =
               (\/ ~settings.imgblock
                \/ is_an_exception(urlparse(uri).netloc)
                \/ is_an_exception(urlparse(uri).netloc \o urlparse(uri).path))
       ELSE auto_load_images' = auto_load_images]_vars

\* COMMITTED with images blocked on a page that is an exception by its
\* host and path: the images are loaded.
C22_Witness ==
    /\ last.op = "load_changed"
    /\ last.arg = <<"COMMITTED">>
    /\ settings.imgblock
    /\ uri = HttpB
    /\ exceptions = {HostB \o <<"/x">>}
    /\ auto_load_images

\* The flags values that have a message of their own, with the message.
OwnMessage ==
    [f \in TlsFlags |->
        CASE f = "BAD_IDENTITY" -> "does not match this website"
          [] f = "EXPIRED" -> "has expired"
          [] f = "UNKNOWN_CA" -> "authority is not known"
          [] f = "GENERIC_ERROR" -> "contains errors"
          [] f = "REVOKED" -> "has been revoked"
          [] f = "INSECURE" -> "weak signature algorithm"
          [] f = "NOT_ACTIVATED" -> "still in the future"]

\* C23: on a TLS failure the reason of the interstitial is chosen by the
\* flags value: each of the seven flags alone has a distinct message of its
\* own (EXPIRED the has-expired one), every other value, a combination of
\* several flags included, has the generic unverified message; in all
\* cases the certificate is captured and the interstitial is shown.
C23_TlsReasonMapping ==
    /\ \A f \in TlsFlags, g \in TlsFlags : f # g => OwnMessage[f] # OwnMessage[g]
    /\ \A f \in TlsFlags : OwnMessage[f] # "has not been verified"
    /\ last.op = "load_failed_tls" =>
          /\ page.kind = "tls"
          /\ "load_html" \in last.calls
          /\ bad_tls = page.cert
          /\ bad_tls # NoneCert
          /\ page.reason =
                IF \E f \in TlsFlags : last.errors = {f}
                THEN OwnMessage[CHOOSE f \in TlsFlags : last.errors = {f}]
                ELSE "has not been verified"

\* A failure with two flags set has the generic message.
C23_Witness ==
    /\ last.op = "load_failed_tls"
    /\ last.errors = {"EXPIRED", "UNKNOWN_CA"}
    /\ page.reason = "has not been verified"
    /\ bad_tls = "certB"

\* C24: allow_tls_certificate_for_host(c, h) is invoked only when the most
\* recent TLS failure of the view presented certificate c for a URI whose
\* host is h: a certificate captured for one host is never registered as
\* trusted for another host.
C24_CertificateBoundToHost ==
    [][(last'.op = "accept_scheme"
        /\ "allow_tls_certificate_for_host" \in last'.calls) =>
          trusted' = trusted \cup {<<hist.cert, hist.host>>}]_vars

\* C25: for every download-started event of a web context,
\* download_manager.add is called exactly once for the download, however
\* many views share the context.
C25_DownloadHandedOffOnce ==
    last.op = "download_started" => last.adds = 1

\* C26: in every reachable state of a view, a freshly created one and one
\* whose only load_uri calls used about:blank or a schemeless URI
\* included, a geolocation permission request is answered without error:
\* denied if insecure content has been detected or the view is private,
\* allowed otherwise.
C26_GeolocationAnswered ==
    (last.op = "permission_request" /\ last.arg = <<"geolocation">>) =>
        /\ last.ret # "AttributeError"
        /\ last.decision = IF insecure = "True" \/ private
                           THEN "deny" ELSE "allow"

\* The save-password signals of the last handler run.
SavePasswords(run) ==
    {i \in 1..Len(run.emitted) : run.emitted[i].sig = "save-password"}

\* C27: a private view never starts the GetForms lookup on form submission
\* and never emits save-password; a non-private view emits save-password
\* only from a lookup that returned a non-empty username and a non-empty
\* password; a failing lookup emits nothing and changes no view state.
C27_PrivateNeverSaves ==
    [][/\ private =>
           /\ lookups' = << >>
           /\ "GetForms" \notin last'.calls
           /\ SavePasswords(last') = {}
       /\ \A i \in SavePasswords(last') :
           /\ ~private /\ last'.op = "get_forms"
           /\ last'.emitted[i].s1 # EmptyStr
           /\ last'.emitted[i].s2 # EmptyStr
       /\ (last'.op = "get_forms" /\ "print" \in last'.calls) =>
           /\ last'.emitted = << >>
           /\ UNCHANGED <<viewVars, readVars>>]_vars

\* A private view has had a form submitted on a loaded page and has no
\* lookup outstanding.
C27_Witness ==
    /\ private /\ last.op = "submit_form" /\ last.arg = HttpsAQ
    /\ lookups = << >> /\ last.calls = {}

\* A notification of a title that starts with the sentinel.
SentinelTitleStep ==
    last'.op = "title_changed" /\ IsSentinelTitle(last'.arg)

\* C28: a title notification whose title starts with the readability
\* sentinel never emits title-changed and never changes the cached title;
\* it sets readable_content to the title with the prefix removed and emits
\* readable. readable_content is empty after every URI change and stays as
\* it is until the next sentinel title arrives, and a non-sentinel title
\* equal to the cached title emits nothing.
C28_SentinelTitles ==
    [][/\ SentinelTitleStep =>
           /\ title' = title
           /\ readable_content' = Tail(last'.arg)
           /\ last'.emitted = <<Signal("readable", EmptyStr, EmptyStr,
                                       EmptyStr, FALSE)>>
       /\ last'.op = "uri_changed" => readable_content' = EmptyStr
       /\ (last'.op # "uri_changed" /\ ~SentinelTitleStep) =>
           UNCHANGED readable_content
       /\ (last'.op = "title_changed" /\ ~IsSentinelTitle(last'.arg)
             /\ last'.arg = title) => last'.emitted = << >>]_vars

\* The reading overlays the View holds.
ReadingOverlays == {i \in DOMAIN overlays : overlays[i] = "reading_view"}

====
